---- MODULE Spec2Model ----
(***************************************************************************)
(* EventStreamHandler.get_stream of synapse/handlers/events.py as a state  *)
(* machine.  get_stream is a Twisted inlineCallbacks generator: the code   *)
(* between two yields runs atomically on the reactor thread, and a call    *)
(* can be suspended at each yield (distributor.fire, the store and room    *)
(* lookups, notifier.get_events_for).  Each action below is one such       *)
(* atomic segment, the finally block included when the segment ends the    *)
(* call.  The clock's timers and the passing of time are part of the       *)
(* state.  Three smaller specifications over their own variables cover     *)
(* the parts of the file that do not touch the session bookkeeping: the    *)
(* timeout jitter (JitterSpec), the choice of the rooms handed to the      *)
(* notifier (RoomSpec) and EventHandler.get_event (EventSpec).             *)
(***************************************************************************)
EXTENDS Integers, Sequences, FiniteSets, TLC

\* ---- bounds ------------------------------------------------------------
MaxCalls == 3
\* Calls invoked in the fair specification.
FairCalls == 2
\* Time advances in steps of TickStep units.
TickStep == 10
\* Largest timeout (milliseconds) a caller passes in the jitter specification.
MaxTimeout == 600
\* get_event calls made in the event specification.
MaxEventCalls == 2
\* Longest list of rooms the store returns for an application service.
MaxRoomList == 2

\* ---- program constants -------------------------------------------------
\* clock.call_later(30, _later)
GraceDelay == 30
\* timeout = max(timeout, 500)
MinTimeout == 500

Calls == 1..MaxCalls
Users == {"alice"}

\* Positions of a call: "idle" (not yet invoked), suspended at one of the
\* yields, or "done".
Body == {"lookup", "as_rooms", "joined", "notifier"}
Suspended == {"fire"} \cup Body

VARIABLES
    _streams_per_user,     \* dict user -> count of active streams
    _stop_timer_per_user,  \* dict user -> handle of the scheduled _later
    timers,                \* the clock: handle -> [user, remaining, age]
    calls,                 \* the get_stream invocations
    fired,                 \* the signals handed to distributor.fire, in order
    timeout_in,            \* the timeout argument of one get_stream call
    timeout,               \* the local variable timeout of that call
    jpc,                   \* "idle", "start" or "notifier" (timeout handed over)
    store,                 \* the event store: event id -> what it holds
    joined,                \* the memberships: pairs <<room id, user>>
    ev,                    \* the get_event call in progress
    renv,                  \* what the store and the room handler hold
    rm                     \* the room resolution of one get_stream call

svars == <<_streams_per_user, _stop_timer_per_user, timers, calls, fired>>

jvars == <<timeout_in, timeout, jpc>>

evars == <<store, joined, ev>>

rvars == <<renv, rm>>

vars == <<svars, jvars, evars, rvars>>

\* ---- dict helpers ------------------------------------------------------
Put(f, k, v) == [x \in DOMAIN f \cup {k} |-> IF x = k THEN v ELSE f[x]]

Remove(f, k) == [x \in DOMAIN f \ {k} |-> f[x]]

EmptyDict == [x \in {} |-> 0]

NewCall == [pc |-> "idle", user |-> "alice", affect_presence |-> TRUE,
            cause |-> "none", result |-> "none",
            cancelled |-> 0, cancelFailed |-> FALSE]

\* The events handler: ids the callers ask for, rooms, users.
EventIds == {"e1", "e2"}
Rooms == {"r1", "r2"}
EventUsers == {"alice", "bob"}

\* What the store holds for an id: nothing, an event without room_id, or an
\* event of a room.
Contents == {"absent", "no_room"} \cup Rooms

NewEventCall(pc) == [pc |-> pc, user |-> "alice", event_id |-> "e1",
                     event |-> "pending", result |-> "pending",
                     checks |-> {}, n |-> 0]

\* No get_stream call made, no session state.
StreamIdle ==
    /\ _streams_per_user = EmptyDict
    /\ _stop_timer_per_user = EmptyDict
    /\ timers = EmptyDict
    /\ calls = [c \in Calls |-> NewCall]
    /\ fired = <<>>

JitterIdle ==
    /\ timeout_in = 0
    /\ timeout = 0
    /\ jpc = "idle"

EventIdle ==
    /\ store = [i \in EventIds |-> "absent"]
    /\ joined = {}
    /\ ev = NewEventCall("idle")

NewResolution(pc) == [pc |-> pc, app_service |-> "pending",
                      room_ids |-> {}, consulted |-> {}]

RoomIdle ==
    /\ renv = [app_service |-> "none", service_rooms |-> <<>>,
               joined_rooms |-> {}]
    /\ rm = NewResolution("idle")

Init == StreamIdle /\ JitterIdle /\ EventIdle /\ RoomIdle

\* ---- the timer service -------------------------------------------------
\* clock.call_later(delay, _later) called in the finally block of call c:
\* the handle of the new timer is named after the call that scheduled it;
\* age is the time the timer has been scheduled for (capped at GraceDelay).
call_later(ts, c, u, delay) ==
    Put(ts, c, [user |-> u, remaining |-> delay, age |-> 0])

\* clock.cancel_call_later(handle): "ok" removes the timer; it may also
\* raise, with the timer gone ("fail_gone") or still scheduled ("fail_kept").
CancelOutcomes == {"ok", "fail_gone", "fail_kept"}

cancel_call_later(ts, h, outcome) ==
    IF outcome = "fail_kept" THEN ts ELSE Remove(ts, h)

\* ---- scheduling of the stop callback (lines 134-137) -------------------
ScheduleNoGrace(ts, c, u) == call_later(ts, c, u, 0)

ScheduleStop(ts, c, u) == call_later(ts, c, u, GraceDelay)

\* The failure of a store, room-member handler or notifier call, as the
\* caller of get_stream sees it.
UpstreamFailure == "upstream_failed"

\* ---- the finally block (lines 115-137) ---------------------------------
\* Runs in the same atomic segment as whatever ended the body; outcome is
\* what the body produced ("ok" or the name of the failure in flight).
\* A KeyError raised by the finally block replaces that outcome.
Finish(c, outcome, cause) ==
    [calls EXCEPT ![c].pc = "done", ![c].result = outcome, ![c].cause = cause]

\* (Variant with a slip: the stop handle stored without deleting the entry.)
FinallyKeepsEntry(c, outcome, cause) ==
    LET u == calls[c].user IN
    IF ~calls[c].affect_presence
    THEN /\ calls' = Finish(c, outcome, cause)
         /\ UNCHANGED <<_streams_per_user, _stop_timer_per_user, timers>>
    ELSE IF u \notin DOMAIN _streams_per_user
    THEN /\ calls' = Finish(c, "KeyError", cause)
         /\ UNCHANGED <<_streams_per_user, _stop_timer_per_user, timers>>
    ELSE LET n == _streams_per_user[u] - 1 IN
         /\ calls' = Finish(c, outcome, cause)
         /\ _streams_per_user' = Put(_streams_per_user, u, n)
         /\ IF n = 0
            THEN /\ timers' = ScheduleStop(timers, c, u)
                 /\ _stop_timer_per_user' = Put(_stop_timer_per_user, u, c)
            ELSE UNCHANGED <<_stop_timer_per_user, timers>>

Finally(c, outcome, cause) ==
    LET u == calls[c].user IN
    IF ~calls[c].affect_presence
    THEN /\ calls' = Finish(c, outcome, cause)
         /\ UNCHANGED <<_streams_per_user, _stop_timer_per_user, timers>>
    ELSE IF u \notin DOMAIN _streams_per_user
    THEN \* self._streams_per_user[auth_user] -= 1 raises KeyError
         /\ calls' = Finish(c, "KeyError", cause)
         /\ UNCHANGED <<_streams_per_user, _stop_timer_per_user, timers>>
    ELSE LET n == _streams_per_user[u] - 1 IN
         /\ calls' = Finish(c, outcome, cause)
         /\ IF n = 0
            THEN /\ _streams_per_user' = Remove(_streams_per_user, u)
                 /\ timers' = ScheduleStop(timers, c, u)
                 /\ _stop_timer_per_user' = Put(_stop_timer_per_user, u, c)
            ELSE /\ _streams_per_user' = Put(_streams_per_user, u, n)
                 /\ UNCHANGED <<_stop_timer_per_user, timers>>

\* ---- entry over a pending stop timer (lines 63-70, 75) ------------------
\* The count entry is created, the stored handle is popped and cancelled; a
\* failure of the cancellation is caught and logged, and the entry goes on
\* to the increment without firing "started".
CancelStopUncaught(c, u, co) ==
    LET h == _stop_timer_per_user[u] IN
    /\ _stop_timer_per_user' = Remove(_stop_timer_per_user, u)
    /\ timers' = cancel_call_later(timers, h, co)
    /\ IF co = "ok"
       THEN /\ _streams_per_user' = Put(_streams_per_user, u, 1)
            /\ calls' = [calls EXCEPT ![c].pc = "lookup", ![c].user = u,
                                      ![c].cancelled = h]
       ELSE /\ _streams_per_user' = Put(_streams_per_user, u, -1)
            /\ calls' = [calls EXCEPT ![c].pc = "done", ![c].user = u,
                                      ![c].cancelled = h,
                                      ![c].cancelFailed = TRUE,
                                      ![c].cause = "cancel_failed",
                                      ![c].result = "cancel_failed"]
    /\ UNCHANGED fired

CancelStop(c, u, co) ==
    LET h == _stop_timer_per_user[u] IN
    /\ _stop_timer_per_user' = Remove(_stop_timer_per_user, u)
    /\ timers' = cancel_call_later(timers, h, co)
    /\ _streams_per_user' = Put(_streams_per_user, u, 1)
    /\ calls' = [calls EXCEPT ![c].pc = "lookup", ![c].user = u,
                              ![c].cancelled = h,
                              ![c].cancelFailed = (co # "ok")]
    /\ UNCHANGED fired

\* ---- get_stream, first segment (lines 58-79) ---------------------------
\* Entry accounting up to the first yield: either the yield of
\* distributor.fire("started_user_eventstream") or, when nothing is fired,
\* the yield of store.get_app_service_by_user_id.
\* (Variant with a slip: affect_presence not consulted on entry.)
BeginCounted(c, u, ap, co) ==
    /\ calls[c].pc = "idle"
    /\ \A d \in Calls : d < c => calls[d].pc # "idle"
    /\ IF u \in DOMAIN _streams_per_user
       THEN /\ _streams_per_user' =
                   Put(_streams_per_user, u, _streams_per_user[u] + 1)
            /\ calls' = [calls EXCEPT ![c].pc = "lookup", ![c].user = u,
                                      ![c].affect_presence = ap]
            /\ UNCHANGED <<_stop_timer_per_user, timers, fired>>
       ELSE IF u \in DOMAIN _stop_timer_per_user
       THEN /\ _stop_timer_per_user' = Remove(_stop_timer_per_user, u)
            /\ timers' = cancel_call_later(timers, _stop_timer_per_user[u], co)
            /\ _streams_per_user' = Put(_streams_per_user, u, 1)
            /\ calls' = [calls EXCEPT ![c].pc = "lookup", ![c].user = u,
                                      ![c].affect_presence = ap,
                                      ![c].cancelled = _stop_timer_per_user[u],
                                      ![c].cancelFailed = (co # "ok")]
            /\ UNCHANGED fired
       ELSE /\ _streams_per_user' = Put(_streams_per_user, u, 0)
            /\ fired' = Append(fired, [sig |-> "started", user |-> u,
                                       by |-> c, elapsed |-> 0])
            /\ calls' = [calls EXCEPT ![c].pc = "fire", ![c].user = u,
                                      ![c].affect_presence = ap]
            /\ UNCHANGED <<_stop_timer_per_user, timers>>

Begin(c, u, ap, co) ==
    /\ calls[c].pc = "idle"
    /\ \A d \in Calls : d < c => calls[d].pc # "idle"  \* numbered as invoked
    /\ IF ~ap
       THEN /\ calls' = [calls EXCEPT ![c].pc = "lookup", ![c].user = u,
                                      ![c].affect_presence = FALSE]
            /\ UNCHANGED <<_streams_per_user, _stop_timer_per_user, timers,
                           fired>>
       ELSE IF u \in DOMAIN _streams_per_user
       THEN /\ _streams_per_user' =
                   Put(_streams_per_user, u, _streams_per_user[u] + 1)
            /\ calls' = [calls EXCEPT ![c].pc = "lookup", ![c].user = u]
            /\ UNCHANGED <<_stop_timer_per_user, timers, fired>>
       ELSE IF u \in DOMAIN _stop_timer_per_user
       THEN CancelStop(c, u, co)
       ELSE /\ _streams_per_user' = Put(_streams_per_user, u, 0)
            /\ fired' = Append(fired, [sig |-> "started", user |-> u,
                                       by |-> c, elapsed |-> 0])
            /\ calls' = [calls EXCEPT ![c].pc = "fire", ![c].user = u]
            /\ UNCHANGED <<_stop_timer_per_user, timers>>

get_stream(c) ==
    \E u \in Users, ap \in BOOLEAN, co \in CancelOutcomes :
        /\ (u \in DOMAIN _stop_timer_per_user /\ ap
              /\ u \notin DOMAIN _streams_per_user) \/ co = "ok"
        /\ Begin(c, u, ap, co)

\* ---- resumption after distributor.fire (lines 72-79) -------------------
\* The fire completed: line 75 increments the count, or raises KeyError when
\* the entry was deleted meanwhile; the finally block then runs at once.
FireDone(c) ==
    /\ calls[c].pc = "fire"
    /\ LET u == calls[c].user IN
       IF u \in DOMAIN _streams_per_user
       THEN /\ _streams_per_user' =
                   Put(_streams_per_user, u, _streams_per_user[u] + 1)
            /\ calls' = [calls EXCEPT ![c].pc = "lookup"]
            /\ UNCHANGED <<_stop_timer_per_user, timers>>
       ELSE Finally(c, "KeyError", "none")
    /\ UNCHANGED fired

\* The fire failed: the exception leaves the try block through finally.
FireFail(c) ==
    /\ calls[c].pc = "fire"
    /\ Finally(c, "fire_failed", "fire_failed")
    /\ UNCHANGED fired

\* ---- room resolution (lines 79-86) -------------------------------------
LookupDone(c) ==
    /\ calls[c].pc = "lookup"
    /\ \E app_service \in BOOLEAN :
          calls' = [calls EXCEPT
                       ![c].pc = IF app_service THEN "as_rooms" ELSE "joined"]
    /\ UNCHANGED <<_streams_per_user, _stop_timer_per_user, timers, fired>>

LookupFail(c) ==
    /\ calls[c].pc = "lookup"
    /\ Finally(c, UpstreamFailure, UpstreamFailure)
    /\ UNCHANGED fired

\* (Variant with a slip: the exit accounting run when the notifier is called.)
RoomsDoneEarlyExit(c) ==
    /\ calls[c].pc \in {"as_rooms", "joined"}
    /\ calls' = [calls EXCEPT ![c].pc = "notifier"]
    /\ IF calls[c].affect_presence /\ calls[c].user \in DOMAIN _streams_per_user
       THEN _streams_per_user' =
               Put(_streams_per_user, calls[c].user,
                   _streams_per_user[calls[c].user] - 1)
       ELSE UNCHANGED _streams_per_user
    /\ UNCHANGED <<_stop_timer_per_user, timers, fired>>

RoomsDone(c) ==
    /\ calls[c].pc \in {"as_rooms", "joined"}
    /\ calls' = [calls EXCEPT ![c].pc = "notifier"]
    /\ UNCHANGED <<_streams_per_user, _stop_timer_per_user, timers, fired>>

RoomsFail(c) ==
    /\ calls[c].pc \in {"as_rooms", "joined"}
    /\ Finally(c, UpstreamFailure, UpstreamFailure)
    /\ UNCHANGED fired

\* ---- the notifier wait and the result (lines 96-113) -------------------
NotifierDone(c) ==
    /\ calls[c].pc = "notifier"
    /\ Finally(c, "ok", "none")
    /\ UNCHANGED fired

NotifierFail(c) ==
    /\ calls[c].pc = "notifier"
    /\ Finally(c, UpstreamFailure, UpstreamFailure)
    /\ UNCHANGED fired

\* ---- time and the stop callback (lines 123-132) ------------------------
Tick ==
    /\ \E h \in DOMAIN timers : timers[h].remaining > 0
    /\ timers' = [h \in DOMAIN timers |->
                     [timers[h] EXCEPT
                         !.remaining = IF @ > TickStep THEN @ - TickStep
                                       ELSE 0,
                         !.age = IF @ + TickStep < GraceDelay
                                 THEN @ + TickStep ELSE GraceDelay]]
    /\ UNCHANGED <<_streams_per_user, _stop_timer_per_user, calls, fired>>

_later(h) ==
    /\ h \in DOMAIN timers
    /\ timers[h].remaining = 0
    /\ LET u == timers[h].user IN
       /\ _stop_timer_per_user' = Remove(_stop_timer_per_user, u)
       /\ fired' = Append(fired, [sig |-> "stopped", user |-> u, by |-> h,
                                  elapsed |-> timers[h].age])
    /\ timers' = Remove(timers, h)
    /\ UNCHANGED <<_streams_per_user, calls>>

Next ==
    \/ \E c \in Calls : get_stream(c) /\ UNCHANGED <<jvars, evars, rvars>>
    \/ \E c \in Calls : FireDone(c) /\ UNCHANGED <<jvars, evars, rvars>>
    \/ \E c \in Calls : FireFail(c) /\ UNCHANGED <<jvars, evars, rvars>>
    \/ \E c \in Calls : LookupDone(c) /\ UNCHANGED <<jvars, evars, rvars>>
    \/ \E c \in Calls : LookupFail(c) /\ UNCHANGED <<jvars, evars, rvars>>
    \/ \E c \in Calls : RoomsDone(c) /\ UNCHANGED <<jvars, evars, rvars>>
    \/ \E c \in Calls : RoomsFail(c) /\ UNCHANGED <<jvars, evars, rvars>>
    \/ \E c \in Calls : NotifierDone(c) /\ UNCHANGED <<jvars, evars, rvars>>
    \/ \E c \in Calls : NotifierFail(c) /\ UNCHANGED <<jvars, evars, rvars>>
    \/ Tick /\ UNCHANGED <<jvars, evars, rvars>>
    \/ \E h \in Calls : _later(h) /\ UNCHANGED <<jvars, evars, rvars>>

Spec == Init /\ [][Next]_vars

\* ---- the fair specification --------------------------------------------
\* The reactor is not starved: time passes and a due callback is run.
FairNext ==
    \/ \E c \in Calls : c <= FairCalls /\ get_stream(c) /\ UNCHANGED <<jvars, evars, rvars>>
    \/ \E c \in Calls : FireDone(c) /\ UNCHANGED <<jvars, evars, rvars>>
    \/ \E c \in Calls : FireFail(c) /\ UNCHANGED <<jvars, evars, rvars>>
    \/ \E c \in Calls : LookupDone(c) /\ UNCHANGED <<jvars, evars, rvars>>
    \/ \E c \in Calls : LookupFail(c) /\ UNCHANGED <<jvars, evars, rvars>>
    \/ \E c \in Calls : RoomsDone(c) /\ UNCHANGED <<jvars, evars, rvars>>
    \/ \E c \in Calls : RoomsFail(c) /\ UNCHANGED <<jvars, evars, rvars>>
    \/ \E c \in Calls : NotifierDone(c) /\ UNCHANGED <<jvars, evars, rvars>>
    \/ \E c \in Calls : NotifierFail(c) /\ UNCHANGED <<jvars, evars, rvars>>
    \/ Tick /\ UNCHANGED <<jvars, evars, rvars>>
    \/ \E h \in Calls : _later(h) /\ UNCHANGED <<jvars, evars, rvars>>

FairSpec ==
    /\ Init
    /\ [][FairNext]_vars
    /\ WF_svars(Tick)
    /\ WF_svars(\E h \in Calls : _later(h))

\* ---- the timeout jitter (lines 88-99) -----------------------------------
\* int(timeout * 0.9) and int(timeout * 1.1): the float product truncated
\* towards zero.  For the timeouts of this model (and up to 2,000,000) the
\* float results equal the exact quotients below.
IntTimes09(t) == (t * 9) \div 10

IntTimes11(t) == (t * 11) \div 10

Max(a, b) == IF a >= b THEN a ELSE b

\* timeout = max(timeout, 500)
NoClamp(t) == t

Clamp(t) == Max(t, MinTimeout)

\* random.randint(a, b): any integer of the closed range.
randint(a, b) == a..b

\* The values lines 88-94 can leave in timeout.
Jittered(t) ==
    IF t # 0
    THEN randint(IntTimes09(Clamp(t)), IntTimes11(Clamp(t)))
    ELSE {t}

\* Lines 88-99 of one call: the timeout is clamped and redrawn, and the
\* notifier is called with it.
ApplyJitter ==
    /\ jpc = "start"
    /\ \E j \in Jittered(timeout) : timeout' = j
    /\ jpc' = "notifier"
    /\ UNCHANGED <<timeout_in, svars, evars, rvars>>

JitterInit ==
    /\ StreamIdle
    /\ EventIdle
    /\ RoomIdle
    /\ timeout_in \in 0..MaxTimeout
    /\ timeout = timeout_in
    /\ jpc = "start"

JitterNext == ApplyJitter

JitterSpec == JitterInit /\ [][JitterNext]_vars

\* ---- EventHandler.get_event (lines 143-165) ----------------------------
\* auth.check_joined_room(room_id, user): passes for a member of the room,
\* raises the authorization error otherwise.
check_joined_room(r, u) == <<r, u>> \in joined

\* Line 156: store.get_event(event_id) is called and the call suspends.
get_event(u, i) ==
    /\ ev.pc \in {"ready", "done"}
    /\ ev.n < MaxEventCalls
    /\ ev' = [NewEventCall("store") EXCEPT !.user = u, !.event_id = i,
                                           !.n = ev.n + 1]
    /\ UNCHANGED <<store, joined, svars, jvars, rvars>>

\* Lines 156-165 up to the next yield, variants with a slip: the absent
\* event reported as an error; the room check left out.
EventStoreDoneRaises ==
    /\ ev.pc = "store"
    /\ LET e == store[ev.event_id] IN
       IF e = "absent"
       THEN ev' = [ev EXCEPT !.pc = "done", !.event = e,
                             !.result = "NotFound"]
       ELSE IF e \in Rooms
       THEN ev' = [ev EXCEPT !.pc = "auth", !.event = e,
                             !.checks = @ \cup {<<e, ev.user>>}]
       ELSE ev' = [ev EXCEPT !.pc = "done", !.event = e,
                             !.result = ev.event_id]
    /\ UNCHANGED <<store, joined, svars, jvars, rvars>>

EventStoreDoneNoCheck ==
    /\ ev.pc = "store"
    /\ LET e == store[ev.event_id] IN
       IF e = "absent"
       THEN ev' = [ev EXCEPT !.pc = "done", !.event = e, !.result = "None"]
       ELSE ev' = [ev EXCEPT !.pc = "done", !.event = e,
                             !.result = ev.event_id]
    /\ UNCHANGED <<store, joined, svars, jvars, rvars>>

\* Lines 156-165 up to the next yield: the store has answered.  No event:
\* None is returned.  An event with room_id: check_joined_room is called and
\* the call suspends.  Any other event is returned.
EventStoreDone ==
    /\ ev.pc = "store"
    /\ LET e == store[ev.event_id] IN
       IF e = "absent"
       THEN ev' = [ev EXCEPT !.pc = "done", !.event = e, !.result = "None"]
       ELSE IF e \in Rooms
       THEN ev' = [ev EXCEPT !.pc = "auth", !.event = e,
                             !.checks = @ \cup {<<e, ev.user>>}]
       ELSE ev' = [ev EXCEPT !.pc = "done", !.event = e,
                             !.result = ev.event_id]
    /\ UNCHANGED <<store, joined, svars, jvars, rvars>>

\* Lines 163-165: the check passed and the event is returned, or the check
\* raised and the error leaves get_event.
EventAuthDone ==
    /\ ev.pc = "auth"
    /\ ev' = [ev EXCEPT !.pc = "done",
                        !.result = IF check_joined_room(ev.event, ev.user)
                                   THEN ev.event_id ELSE "AuthError"]
    /\ UNCHANGED <<store, joined, svars, jvars, rvars>>

EventInit ==
    /\ StreamIdle
    /\ JitterIdle
    /\ RoomIdle
    /\ store \in [EventIds -> Contents]
    /\ joined \in SUBSET (Rooms \X EventUsers)
    /\ ev = NewEventCall("ready")

EventNext ==
    \/ \E u \in EventUsers, i \in EventIds : get_event(u, i)
    \/ EventStoreDone
    \/ EventAuthDone

EventSpec == EventInit /\ [][EventNext]_vars

\* ---- the room scope of one get_stream call (lines 77-99) ----------------
\* The data of the segments LookupDone and RoomsDone above: which
\* collaborator is asked and which room ids reach the notifier.
Range(q) == {q[i] : i \in 1..Len(q)}

RoomLists == UNION {[1..n -> Rooms] : n \in 0..MaxRoomList}

\* Line 79: store.get_app_service_by_user_id is called.
ResolveStart ==
    /\ rm.pc = "ready"
    /\ rm' = [rm EXCEPT !.pc = "lookup",
                        !.consulted = @ \cup {"get_app_service_by_user_id"}]
    /\ UNCHANGED <<renv, svars, jvars, evars>>

\* Lines 82-86: the store has answered; the rooms of the application
\* service are asked for, or else the joined rooms of the user.
ResolveLookupDone ==
    /\ rm.pc = "lookup"
    /\ rm' = IF renv.app_service # "none"
             THEN [rm EXCEPT !.pc = "as_rooms",
                             !.app_service = renv.app_service,
                             !.consulted = @ \cup {"get_app_service_rooms"}]
             ELSE [rm EXCEPT !.pc = "joined",
                             !.app_service = renv.app_service,
                             !.consulted =
                                 @ \cup {"get_joined_rooms_for_user"}]
    /\ UNCHANGED <<renv, svars, jvars, evars>>

\* (Variant with a slip: the joined rooms added to the service's rooms.)
ResolveRoomsDoneMerged ==
    /\ rm.pc \in {"as_rooms", "joined"}
    /\ rm' = [rm EXCEPT !.pc = "notifier",
                        !.room_ids = IF rm.pc = "as_rooms"
                                     THEN Range(renv.service_rooms)
                                             \cup renv.joined_rooms
                                     ELSE renv.joined_rooms]
    /\ UNCHANGED <<renv, svars, jvars, evars>>

\* Lines 83-99: room_ids is the set of the room ids of the returned rooms,
\* or the joined rooms, and the notifier is called with it.
ResolveRoomsDone ==
    /\ rm.pc \in {"as_rooms", "joined"}
    /\ rm' = [rm EXCEPT !.pc = "notifier",
                        !.room_ids = IF rm.pc = "as_rooms"
                                     THEN Range(renv.service_rooms)
                                     ELSE renv.joined_rooms]
    /\ UNCHANGED <<renv, svars, jvars, evars>>

RoomInit ==
    /\ StreamIdle
    /\ JitterIdle
    /\ EventIdle
    /\ renv \in [app_service : {"none", "as1"},
                  service_rooms : RoomLists,
                  joined_rooms : SUBSET Rooms]
    /\ rm = NewResolution("ready")

RoomNext ==
    \/ ResolveStart
    \/ ResolveLookupDone
    \/ ResolveRoomsDone

RoomSpec == RoomInit /\ [][RoomNext]_vars

\* ---- observations ------------------------------------------------------
\* The presence-affecting calls of u that are running (invoked, not done).
InFlight(u) ==
    {c \in Calls : /\ calls[c].pc \in Suspended
                   /\ calls[c].user = u
                   /\ calls[c].affect_presence}

\* The presence-affecting calls of u between entry and exit accounting.
Entered(u) ==
    {c \in Calls : /\ calls[c].pc \in Body
                   /\ calls[c].user = u
                   /\ calls[c].affect_presence}

Count(u) == IF u \in DOMAIN _streams_per_user THEN _streams_per_user[u] ELSE 0

Signals(u, s) ==
    {i \in 1..Len(fired) : fired[i].user = u /\ fired[i].sig = s}

\* No collaborator has failed so far.
NoFault == \A c \in Calls : calls[c].cause = "none" /\ ~calls[c].cancelFailed

\* This step hands signal s of user u to the distributor.
Fires(u, s) ==
    /\ Len(fired') = Len(fired) + 1
    /\ fired'[Len(fired')].user = u
    /\ fired'[Len(fired')].sig = s

\* ---- claims ------------------------------------------------------------

\* C1: session entry and exit are safe under any interleaving: no call
\* fails because of the bookkeeping itself.  Stated for the runs in which
\* no collaborator fails: there no call ends with the KeyError of line 75
\* or line 117.
C1_NoBookkeepingFailure ==
    NoFault => \A c \in Calls : calls[c].result # "KeyError"

\* C2: the active count of a user is never negative, and it equals the
\* number of entries performed minus the number of exits performed (the
\* calls between their entry and their exit accounting), an absent entry
\* counting as 0.
C2_MonotonicAccounting ==
    \A u \in Users : Count(u) >= 0 /\ Count(u) = Cardinality(Entered(u))

\* C3: "started" is fired once per idle-to-active transition: an entry that
\* overlaps a running call of the same user does not fire it again, and an
\* entry that cancels a pending stop timer does not fire it.  Stated for
\* the runs in which no collaborator fails.
C3_StartedOncePerActivation ==
    [][\A u \in Users :
          (NoFault' /\ Fires(u, "started"))
             => (InFlight(u) = {} /\ u \notin DOMAIN _stop_timer_per_user)
      ]_vars

\* C4: "stopped" is fired only when the full grace delay has elapsed since
\* the session exit that scheduled it, and never while a presence-affecting
\* call of that user is in flight.  Stated for the runs in which no
\* collaborator fails (the cancellation included).
C4_StoppedOnlyWhenIdle ==
    [][\A u \in Users :
          (NoFault /\ Fires(u, "stopped"))
             => /\ InFlight(u) = {}
                /\ fired'[Len(fired')].elapsed >= GraceDelay
      ]_vars

\* C5: at most one scheduled, not yet fired stop callback exists per user.
C5_OneStopTimer ==
    \A u \in Users :
        Cardinality({h \in DOMAIN timers : timers[h].user = u}) <= 1

\* C6: debounce.  When the only session of a user (call 1) has exited and
\* call 2 re-enters over its pending stop timer, and no other call is made,
\* "stopped" is never fired for the exit of call 1 and "started" is fired
\* at most once overall.
Reconnected ==
    /\ calls[2].cancelled = 1
    /\ \A d \in Calls : d > 2 => calls[d].pc = "idle"

C6_Debounce ==
    Reconnected =>
        /\ \A i \in 1..Len(fired) :
              ~(fired[i].sig = "stopped" /\ fired[i].by = 1)
        /\ Cardinality(Signals(calls[2].user, "started")) <= 1

\* C7: eventual stop.  When the only session of a user (call 1) has entered
\* and exited and no other presence-affecting call is made, "stopped" is
\* fired at most once, not before the grace delay has elapsed since the
\* exit, and it is eventually fired (or another presence-affecting call is
\* made first).
NoOtherSession ==
    \A d \in Calls : d > 1 => (calls[d].pc = "idle" \/ ~calls[d].affect_presence)

OneSessionExited ==
    /\ calls[1].pc = "done"
    /\ calls[1].affect_presence
    /\ calls[1].cause # "fire_failed"
    /\ NoOtherSession

C7_StopSafe ==
    OneSessionExited =>
        /\ Cardinality(Signals(calls[1].user, "stopped")) <= 1
        /\ \A i \in Signals(calls[1].user, "stopped") :
              fired[i].elapsed >= GraceDelay /\ fired[i].by = 1

C8_FailureUnwound ==
    \A c \in Calls :
        (calls[c].pc = "done" /\ calls[c].affect_presence
            /\ calls[c].cause = UpstreamFailure)
          => calls[c].result = calls[c].cause

\* C9: when firing "started" fails, the failure reaches the caller and the
\* accounting is unwound: no count entry is left behind for a user with no
\* call in flight.
C9_FireFailureUnwound ==
    \A c \in Calls :
        (calls[c].pc = "done" /\ calls[c].cause = "fire_failed")
          => /\ calls[c].result = "fire_failed"
             /\ InFlight(calls[c].user) = {}
                   => calls[c].user \notin DOMAIN _streams_per_user

\* C10: a failure of the timer cancellation during entry is swallowed: the
\* step in which it happens completes the entry (count 1), fires nothing and
\* leaves the call at the app-service lookup, and the failure is never the
\* result of the call.
C10_CancelFailureSwallowed ==
    [][\A c \in Calls :
          /\ (~calls[c].cancelFailed /\ calls'[c].cancelFailed)
                => /\ calls'[c].pc = "lookup"
                   /\ calls'[c].result = "none"
                   /\ calls'[c].user \in DOMAIN _streams_per_user'
                   /\ _streams_per_user'[calls'[c].user] = 1
                   /\ fired' = fired
          /\ calls'[c].cancelFailed => calls'[c].result # "cancel_failed"
      ]_vars

C10_Witness ==
    \E c \in Calls :
        /\ calls[c].cancelFailed
        /\ calls[c].pc = "notifier"
        /\ Signals(calls[c].user, "started") = {1}

\* C11 as stated: for every timeout T >= 1 the value J handed to the
\* notifier satisfies max(500, floor(0.9 T)) <= J <= ceil(1.1 max(500, T)).
\* (10 J >= 9 T - 9 is J >= floor(0.9 T); 10 J <= 11 M + 9 is
\* J <= ceil(1.1 M).)
C11_JitterBoundsAsStated ==
    (jpc = "notifier" /\ timeout_in >= 1) =>
        /\ timeout >= 500
        /\ 10 * timeout >= 9 * timeout_in - 9
        /\ 10 * timeout <= 11 * Max(500, timeout_in) + 9

\* C11 as amended: for every timeout T >= 1 the value J handed to the
\* notifier satisfies max(450, floor(0.9 T)) <= J <= ceil(1.1 max(500, T)).
C11_JitterBounds ==
    (jpc = "notifier" /\ timeout_in >= 1) =>
        /\ timeout >= 450
        /\ 10 * timeout >= 9 * timeout_in - 9
        /\ 10 * timeout <= 11 * Max(500, timeout_in) + 9

C11_Witness ==
    /\ jpc = "notifier"
    /\ timeout_in = 1
    /\ timeout = 450

\* C12: authorization gate.  A finished get_event call on an id whose event
\* has a room has checked exactly the caller's membership of that room, has
\* returned the event if and only if the caller is joined, and has failed
\* with the authorization error otherwise.
C12_AuthorizationGate ==
    (ev.pc = "done" /\ store[ev.event_id] \in Rooms) =>
        /\ ev.checks = {<<store[ev.event_id], ev.user>>}
        /\ (ev.result = ev.event_id)
              <=> (<<store[ev.event_id], ev.user>> \in joined)
        /\ (<<store[ev.event_id], ev.user>> \notin joined)
              => ev.result = "AuthError"

C12_Witness ==
    /\ ev.pc = "done"
    /\ store[ev.event_id] \in Rooms
    /\ <<store[ev.event_id], ev.user>> \notin joined
    /\ joined # {}
    /\ ev.result = "AuthError"

\* C13: a finished get_event call on an id the store does not know has
\* returned None, on the first call and on every later one, and has made no
\* room-membership check.
C13_AbsentIsNone ==
    (ev.pc = "done" /\ store[ev.event_id] = "absent") =>
        /\ ev.result = "None"
        /\ ev.checks = {}

C13_Witness ==
    /\ ev.pc = "done"
    /\ ev.n = 2
    /\ store[ev.event_id] = "absent"
    /\ ev.result = "None"

\* C14: invariant I1.  Between atomic steps, a user whose count entry
\* exists with active count zero has exactly one pending stop handle.
C14_ZeroCountHasPendingStop ==
    \A u \in Users :
        (u \in DOMAIN _streams_per_user /\ _streams_per_user[u] = 0)
          => /\ u \in DOMAIN _stop_timer_per_user
             /\ Cardinality({h \in DOMAIN timers : timers[h].user = u}) = 1

\* C15: quiescent cleanup.  Whenever no presence-affecting call of a user is
\* in flight and no stop timer of that user is outstanding, the user has no
\* entry in _streams_per_user and none in _stop_timer_per_user.
Quiescent(u) ==
    /\ InFlight(u) = {}
    /\ \A h \in DOMAIN timers : timers[h].user # u

C15_QuiescentCleanup ==
    \A u \in Users :
        Quiescent(u) => /\ u \notin DOMAIN _streams_per_user
                        /\ u \notin DOMAIN _stop_timer_per_user

\* C16: order of the steps of one presence-affecting call.  The step in
\* which the call issues its first store call is the step that completes its
\* entry (the count goes up by one), and when the call fired "started" that
\* step is the resumption from the fire; while the call is in room
\* resolution or waits for the notifier its steps leave the session maps
\* alone; the call ends once, from one of its yields, "ok" only from the
\* notifier wait, in a step that takes one off the count (or raises
\* KeyError), and a finished call never changes again.
FiredStarted(c) ==
    \E i \in 1..Len(fired) : fired[i].sig = "started" /\ fired[i].by = c

C17_RoomScope ==
    rm.pc = "notifier" =>
        IF renv.app_service # "none"
        THEN /\ rm.room_ids = {renv.service_rooms[i] :
                                   i \in DOMAIN renv.service_rooms}
             /\ "get_joined_rooms_for_user" \notin rm.consulted
        ELSE /\ rm.room_ids = renv.joined_rooms
             /\ "get_app_service_rooms" \notin rm.consulted

C17_Witness ==
    /\ rm.pc = "notifier"
    /\ renv.app_service # "none"
    /\ renv.service_rooms = <<"r1", "r1">>
    /\ renv.joined_rooms = {"r2"}
    /\ rm.room_ids = {"r1"}

\* C18: per user the fired signals alternate, starting with "started".
SignalsOf(u) == SelectSeq(fired, LAMBDA e : e.user = u)

Alternates(q) ==
    /\ Len(q) > 0 => q[1].sig = "started"
    /\ \A i \in 1..(Len(q) - 1) : q[i].sig # q[i + 1].sig

C18_SignalsAlternate == \A u \in Users : Alternates(SignalsOf(u))

\* C19: at every point where another task can run no user has both a count
\* entry and a stop handle; a handle is stored only in the step that deletes
\* the user's count entry, and a step that creates the count entry leaves no
\* stop handle stored for that user.
HandleStored(u) ==
    /\ u \in DOMAIN _stop_timer_per_user'
    /\ \/ u \notin DOMAIN _stop_timer_per_user
       \/ _stop_timer_per_user'[u] # _stop_timer_per_user[u]

C19_EntryXorHandle ==
    /\ [](\A u \in Users : ~(/\ u \in DOMAIN _streams_per_user
                             /\ u \in DOMAIN _stop_timer_per_user))
    /\ [][\A u \in Users :
             /\ HandleStored(u) =>
                   /\ u \in DOMAIN _streams_per_user
                   /\ u \notin DOMAIN _streams_per_user'
             /\ (u \notin DOMAIN _streams_per_user
                   /\ u \in DOMAIN _streams_per_user')
                   => u \notin DOMAIN _stop_timer_per_user'
       ]_vars

\* A call that entered over a stored handle is in its body: the entry
\* exists and the handle is gone.
C19_Witness ==
    \E c \in Calls :
        /\ calls[c].pc \in Body
        /\ calls[c].cancelled # 0
        /\ calls[c].user \in DOMAIN _streams_per_user
        /\ calls[c].user \notin DOMAIN _stop_timer_per_user

\* C20: a get_stream call with affect_presence false leaves both maps, the
\* timers and the fired signals as they are in every one of its steps, to
\* whichever outcome it comes.
C20_NoPresenceFrame ==
    [][\A c \in Calls :
          (calls'[c] # calls[c] /\ ~calls'[c].affect_presence)
             => UNCHANGED <<_streams_per_user, _stop_timer_per_user,
                            timers, fired>>
      ]_vars

\* Two calls without presence have ended, one with events and one with a
\* failure, while a session of the same user was being counted.
C20_Witness ==
    \E c, d \in Calls :
        /\ ~calls[c].affect_presence /\ calls[c].pc = "done"
        /\ calls[c].result = "ok"
        /\ ~calls[d].affect_presence /\ calls[d].pc = "done"
        /\ calls[d].result = UpstreamFailure
        /\ calls[c].user \in DOMAIN _streams_per_user
        /\ calls[d].user \in DOMAIN _streams_per_user

====
